---------------------------- MODULE Spec2Model ----------------------------
(***************************************************************************)
(* Mindsight (src/app.py): a Streamlit script that is re-executed top to   *)
(* bottom on every user interaction.  The model covers the mood store      *)
(* (mood_log.csv, read and rewritten through pandas), the readers built on *)
(* it (streak, wellness score, export), the crisis gate of the chat, the   *)
(* calls to the hosted language model and the per-session affirmation      *)
(* cache.                                                                  *)
(*                                                                         *)
(* Conventions.  A CSV file is a header (sequence of column names) and a   *)
(* sequence of rows, each a sequence of cell TEXTS.  Field quoting is not  *)
(* modelled: the csv writer quotes and the parser unquotes a field         *)
(* symmetrically, so a cell's text is what both sides see.  A DataFrame    *)
(* holds typed cell VALUES; read_csv's type inference and NA detection and *)
(* to_csv's formatting convert between the two.  The mood labels and the   *)
(* affirmation texts are written without their leading emoji.              *)
(***************************************************************************)
EXTENDS Integers, Sequences, FiniteSets, TLC

VARIABLES
    file,      \* mood_log.csv on disk
    session,   \* st.session_state of the browser session
    today,     \* date.today(), a day number
    tick,      \* the second of the day datetime.now() falls in
    logged,    \* history: the <<mood, note>> passed to each completed save_mood
    ui,        \* what the last script run was given and what it showed
    proc,      \* concurrent sessions inside save_mood: position and locals
    writes     \* history: completed to_csv writes, and the last writer's frame

vars == <<file, session, today, tick, logged, ui, proc, writes>>

-----------------------------------------------------------------------------
(* Bounds of the model *)

MaxDay == 2          \* days the clock of the application model runs through
MaxTick == 2         \* distinct seconds within a day
MaxEntries == 2      \* rows save_mood may bring the store to in the application model
MaxStreakDay == 4    \* days of the streak inputs
MaxStreakRows == 4   \* rows of the streak inputs
MaxRun == 27         \* longest run of one mood in the score inputs
MaxPrefix == 2       \* rows of arbitrary moods before that run
MaxSaves == 2        \* save_mood calls per session in the concurrent model
MaxChoice == 2       \* entries of a list random.choice is taken to pick from

-----------------------------------------------------------------------------
(* Configuration: src/app.py lines 21-46 *)

MOOD_COLUMNS == <<"date_time", "date", "mood", "note">>

MOODS == <<"Happy", "Sad", "Anxious", "Angry", "Stressed">>

LANGUAGES == {"English", "Hindi", "Telugu"}

AFFIRMATIONS ==
    << "You are stronger than you think.",
       "Every day is a fresh start.",
       "You are doing your best, and that's enough.",
       "Believe in yourself - you've got this!",
       "You matter, and your feelings are valid." >>

-----------------------------------------------------------------------------
(* Generic helpers *)

Range(s) == {s[i] : i \in 1..Len(s)}

IndexOf(s, x) == CHOOSE i \in 1..Len(s) : s[i] = x

RECURSIVE Prefix(_, _)
\* the first n values of f, as a tuple
Prefix(f, n) == IF n = 0 THEN <<>> ELSE Append(Prefix(f, n - 1), f[n])

\* the sequence <<e(1), ..., e(n)>> a comprehension [i \in 1..n |-> e(i)] denotes
Seq1(f) == Prefix(f, Cardinality(DOMAIN f))

Max(a, b) == IF a >= b THEN a ELSE b

Min(a, b) == IF a <= b THEN a ELSE b

-----------------------------------------------------------------------------
(* Dates and timestamps.  strftime("%Y-%m-%d %H:%M:%S") and isoformat()    *)
(* are zero-padded and of fixed width, so the texts order as the instants.  *)

DayStr ==
    <<"2024-01-01", "2024-01-02", "2024-01-03", "2024-01-04", "2024-01-05">>

TimeStr == <<"09:00:00", "09:00:01", "09:00:02">>

isoformat(d) == DayStr[d]

strftime(d, t) == DayStr[d] \o " " \o TimeStr[t]

\* every timestamp text of the model, in lexicographic (string) order
StampOrder ==
    Seq1([k \in 1..(Len(DayStr) * Len(TimeStr)) |->
            strftime(((k - 1) \div Len(TimeStr)) + 1, ((k - 1) % Len(TimeStr)) + 1)])

\* s < t for two timestamp texts, as Python compares strings
StrLess(s, t) == IndexOf(StampOrder, s) < IndexOf(StampOrder, t)

\* pd.to_datetime(text).date() on an ISO day text
to_date(s) == IndexOf(DayStr, s)

-----------------------------------------------------------------------------
(* pandas cell values *)

NaN == [t |-> "nan", s |-> "", n |-> 0]

Str(x) == [t |-> "str", s |-> x, n |-> 0]

IntV(k) == [t |-> "int", s |-> "", n |-> k]

FloatV(k) == [t |-> "float", s |-> "", n |-> k]     \* the float k.0

\* pandas' default na_values of read_csv
NA_VALUES ==
    { "", "#N/A", "#N/A N/A", "#NA", "-1.#IND", "-1.#QNAN", "-NaN", "-nan",
      "1.#IND", "1.#QNAN", "<NA>", "N/A", "NA", "NULL", "NaN", "None", "n/a",
      "nan", "null" }

\* The C parser's numeric conversion on the numeric texts of the model:
\* leading zeros are dropped, a decimal point makes a float.
IsIntText(s) == s \in {"7", "007"}

IsFloatText(s) == s \in {"7.0"}

NumOf(s) == CASE s \in {"7", "007", "7.0"} -> 7

\* to_csv's text of one cell
FormatCell(v) ==
    CASE v.t = "nan"   -> ""
      [] v.t = "str"   -> v.s
      [] v.t = "int"   -> ToString(v.n)
      [] v.t = "float" -> ToString(v.n) \o ".0"

\* read_csv's inference for one column, given the texts of its cells
ParseColumn(cells) ==
    LET idx     == 1..Len(cells)
        isna(i) == cells[i] \in NA_VALUES
        present == {i \in idx : ~isna(i)}
        allint  == \A i \in present : IsIntText(cells[i])
        allnum  == \A i \in present : IsIntText(cells[i]) \/ IsFloatText(cells[i])
    IN  IF present = {} /\ idx # {}
        THEN Seq1([i \in idx |-> NaN])                             \* float64, all NaN
        ELSE IF allint /\ present = idx
        THEN Seq1([i \in idx |-> IntV(NumOf(cells[i]))])           \* int64
        ELSE IF allnum
        THEN Seq1([i \in idx |-> IF isna(i) THEN NaN ELSE FloatV(NumOf(cells[i]))])
        ELSE Seq1([i \in idx |-> IF isna(i) THEN NaN ELSE Str(cells[i])]) \* object

\* a raised exception, or a value
Raise(e) == [exc |-> e, val |-> <<>>]

Return(v) == [exc |-> "", val |-> v]

DataFrame(columns, rows) == [columns |-> columns, rows |-> rows]

\* pd.read_csv(path): the first line is the header; a file with no line at
\* all raises EmptyDataError
read_csv(f) ==
    IF f.header = <<>>
    THEN Raise("EmptyDataError")
    ELSE LET cols == Seq1([c \in 1..Len(f.header) |->
                         ParseColumn(Seq1([r \in 1..Len(f.rows) |-> f.rows[r][c]]))])
         IN  Return(DataFrame(f.header,
                 Seq1([r \in 1..Len(f.rows) |->
                         Seq1([c \in 1..Len(f.header) |-> cols[c][r]])])))

\* the content df.to_csv(path, index=False) leaves in the file
to_csv(df) ==
    [exists |-> TRUE,
     header |-> df.columns,
     rows   |-> Seq1([r \in 1..Len(df.rows) |->
                    Seq1([c \in 1..Len(df.columns) |-> FormatCell(df.rows[r][c])])])]

NoFile == [exists |-> FALSE, header |-> <<>>, rows |-> <<>>]

EmptyFile == [exists |-> TRUE, header |-> <<>>, rows |-> <<>>]

HasColumn(df, name) == name \in Range(df.columns)

Column(df, name) ==
    Seq1([r \in 1..Len(df.rows) |-> df.rows[r][IndexOf(df.columns, name)]])

\* df.empty: no rows or no columns
IsEmpty(df) == df.rows = <<>> \/ df.columns = <<>>

-----------------------------------------------------------------------------
(* Crisis detector: src/app.py lines 23-26 and 81-85.  A text is the       *)
(* sequence of its characters.                                             *)

CRISIS_KEYWORDS ==
    << <<"s", "u", "i", "c", "i", "d", "e">>,
       <<"k", "i", "l", "l", " ", "m", "y", "s", "e", "l", "f">>,
       <<"e", "n", "d", " ", "m", "y", " ", "l", "i", "f", "e">>,
       <<"i", " ", "w", "a", "n", "t", " ", "t", "o", " ", "d", "i", "e">>,
       <<"g", "i", "v", "e", " ", "u", "p">>,
       <<"s", "e", "l", "f", " ", "h", "a", "r", "m">>,
       <<"h", "u", "r", "t", " ", "m", "y", "s", "e", "l", "f">>,
       <<"i", " ", "c", "a", "n", "t", " ", "g", "o", " ", "o", "n">>,
       <<"i", " ", "c", "a", "n", "'", "t", " ", "g", "o", " ", "o", "n">>,
       <<"i", "'", "m", " ", "g", "o", "i", "n", "g", " ", "t", "o", " ",
         "k", "i", "l", "l", " ", "m", "y", "s", "e", "l", "f">> >>

UPPER ==
    <<"A", "B", "C", "D", "E", "F", "G", "H", "I", "J", "K", "L", "M",
      "N", "O", "P", "Q", "R", "S", "T", "U", "V", "W", "X", "Y", "Z">>

LOWER ==
    <<"a", "b", "c", "d", "e", "f", "g", "h", "i", "j", "k", "l", "m",
      "n", "o", "p", "q", "r", "s", "t", "u", "v", "w", "x", "y", "z">>

\* str.lower()
lower(text) ==
    Seq1([i \in 1..Len(text) |->
        IF text[i] \in Range(UPPER) THEN LOWER[IndexOf(UPPER, text[i])] ELSE text[i]])

\* kw in t
Contains(t, kw) ==
    \E i \in 1..(Len(t) - Len(kw) + 1) : SubSeq(t, i, i + Len(kw) - 1) = kw

is_crisis(text) ==
    IF text = <<>>
    THEN FALSE
    ELSE LET t == lower(text)
         IN  \E k \in 1..Len(CRISIS_KEYWORDS) : Contains(t, CRISIS_KEYWORDS[k])

\* the texts typed into the chat
ChatTexts ==
    { <<>>,
      <<"I", " ", "h", "a", "d", " ", "a", " ", "g", "r", "e", "a", "t", " ",
        "d", "a", "y">>,
      <<"I", " ", "w", "a", "n", "t", " ", "t", "o", " ", "d", "i", "e">>,
      <<"I", " ", "w", "i", "l", "l", " ", "n", "e", "v", "e", "r", " ",
        "G", "I", "V", "E", " ", "u", "p">> }

\* is_crisis, tabulated over the chat texts
Crisis == [text \in ChatTexts |-> is_crisis(text)]

-----------------------------------------------------------------------------
(* Mood store: src/app.py lines 87-104 *)

\* a variant of concat that keeps only the new entry
only_new(df, e) == e

\* pd.concat([df, pd.DataFrame([entry])], ignore_index=True): the union of
\* the columns, a missing cell filled with NaN (which turns an int64 column
\* into float64)
concat(df, e) ==
    LET cols == df.columns \o SelectSeq(e.columns, LAMBDA c : c \notin Range(df.columns))
        old(r, c) ==
            IF c \notin Range(df.columns) THEN NaN
            ELSE LET v == df.rows[r][IndexOf(df.columns, c)]
                 IN  IF c \notin Range(e.columns) /\ v.t = "int" THEN FloatV(v.n) ELSE v
        new(r, c) ==
            IF c \in Range(e.columns) THEN e.rows[r][IndexOf(e.columns, c)] ELSE NaN
    IN  DataFrame(cols,
            Seq1([r \in 1..Len(df.rows) |-> Seq1([c \in 1..Len(cols) |-> old(r, cols[c])])])
            \o Seq1([r \in 1..Len(e.rows) |-> Seq1([c \in 1..Len(cols) |-> new(r, cols[c])])]))

\* lines 88-93: the entry, as the one-row frame pd.DataFrame([entry])
Entry(mood, note, d, t) ==
    DataFrame(MOOD_COLUMNS,
              << <<Str(strftime(d, t)), Str(isoformat(d)), Str(mood), Str(note)>> >>)

\* lines 94-98: the frame save_mood is about to write
save_frame(f, mood, note, d, t) ==
    IF f.exists
    THEN LET r == read_csv(f)
         IN  IF r.exc # "" THEN r ELSE Return(concat(r.val, Entry(mood, note, d, t)))
    ELSE Return(Entry(mood, note, d, t))

\* save_mood as one call: the file it leaves, or the exception it raises
save_mood(f, mood, note, d, t) ==
    LET r == save_frame(f, mood, note, d, t)
    IN  IF r.exc # "" THEN r ELSE Return(to_csv(r.val))

load_moods(f) ==
    IF f.exists THEN read_csv(f) ELSE Return(DataFrame(MOOD_COLUMNS, <<>>))

-----------------------------------------------------------------------------
(* Streak calculator: src/app.py lines 106-120 *)

RECURSIVE SortDesc(_)
\* sorted(S, reverse=True)
SortDesc(S) ==
    IF S = {} THEN <<>>
    ELSE LET m == CHOOSE x \in S : \A y \in S : y <= x
         IN  <<m>> \o SortDesc(S \ {m})

\* a variant of the loop that counts every distinct date
count_dates(unique_dates, i, now, streak) == Len(unique_dates)

RECURSIVE StreakLoop(_, _, _, _)
\* lines 114-119: the enumerate loop, from position i with `streak` so far
StreakLoop(unique_dates, i, now, streak) ==
    IF i > Len(unique_dates) THEN streak
    ELSE IF unique_dates[i] = now - (i - 1)
         THEN StreakLoop(unique_dates, i + 1, now, streak + 1)
         ELSE streak

\* lines 108-120 on a loaded frame
streak_of(df, now) ==
    IF IsEmpty(df) THEN Return(0)
    ELSE IF ~HasColumn(df, "date") THEN Raise("KeyError")
    ELSE LET col == Column(df, "date")
             unique_dates == SortDesc({to_date(col[r].s) : r \in 1..Len(col)})
         IN  Return(StreakLoop(unique_dates, 1, now, 0))

calculate_streak(f, now) ==
    LET r == load_moods(f)
    IN  IF r.exc # "" THEN r ELSE streak_of(r.val, now)

-----------------------------------------------------------------------------
(* Wellness scorer: src/app.py lines 142-147 *)

score_map(m) ==
    CASE m = "Happy"    -> 2
      [] m = "Sad"      -> -1
      [] m = "Anxious"  -> -1
      [] m = "Angry"    -> -2
      [] m = "Stressed" -> -1
      [] OTHER          -> 0      \* map() gives NaN, which sum() skips

RECURSIVE SumScores(_, _)
\* df["mood"].map(score_map).sum() over the first n cells
SumScores(col, n) ==
    IF n = 0 THEN 0
    ELSE SumScores(col, n - 1) + (IF col[n].t = "str" THEN score_map(col[n].s) ELSE 0)

\* a variant of line 147 without the clamp
unclamped(score) == score

\* line 147
clamp(score) == Max(0, Min(100, score))

wellness_score(df) ==
    IF IsEmpty(df) THEN Return(50)
    ELSE IF ~HasColumn(df, "mood") THEN Raise("KeyError")
    ELSE Return(clamp(SumScores(Column(df, "mood"), Len(df.rows)) + 50))

-----------------------------------------------------------------------------
(* Language-model collaborator: src/app.py lines 56-79.  A call to the     *)
(* hosted model either returns or throws; `oc` gives the outcome of the    *)
(* calls of one generate_response in order (TRUE: the call returns).  A    *)
(* text produced by the model is opaque: its body and its language.        *)

Text(body, lang) == [body |-> body, lang |-> lang]

NoText == Text("", "")

Call(api, ok) == [api |-> api, ok |-> ok]

\* lines 72-79: the translation, or on any exception the text as given
translate(text, target_lang, ok) ==
    IF ok THEN Text(text.body, target_lang) ELSE text

\* lines 56-70: the reply and the calls made for it
generate_response(lang, key, oc) ==
    IF ~key
    THEN [reply |-> Text("Google API key not configured.", "English"), calls |-> <<>>]
    ELSE IF lang = "English"
    THEN [reply |-> IF oc[1] THEN Text("response.text", "English")
                    ELSE Text("Google API error", "English"),
          calls |-> <<Call("send_message", oc[1])>>]
    ELSE IF ~oc[2]
    THEN [reply |-> Text("Google API error", "English"),
          calls |-> <<Call("translate", oc[1]), Call("send_message", oc[2])>>]
    ELSE [reply |-> translate(Text("response.text", "English"), lang, oc[3]),
          calls |-> <<Call("translate", oc[1]), Call("send_message", oc[2]),
                      Call("translate", oc[3])>>]

-----------------------------------------------------------------------------
(* One script run: src/app.py lines 150-259.  The sections run in order on *)
(* a record m of the file, the session state, the save history and what    *)
(* the page shows; an uncaught exception ends the run where it is raised.  *)

FreshUi(button, d, user_text) ==
    [button |-> button, day |-> d, crisis |-> Crisis[user_text],
     status |-> "ok", exc |-> "", section |-> "",
     chat |-> "", reply |-> NoText, calls |-> <<>>,
     saved |-> FALSE, total |-> -1, streak |-> -1, score |-> -1,
     export |-> NoFile, journal |-> "", affirmation |-> ""]

Crash(m, section, e) ==
    [m EXCEPT !.ui.status = "crashed", !.ui.exc = e, !.ui.section = section]

Crashed(m) == m.ui.status = "crashed"

\* a variant of the Send handler that asks the model before looking at the
\* crisis check
ChatSectionUngated(m, pressed, user_text, lang, key, oc) ==
    IF Crashed(m) \/ ~pressed THEN m
    ELSE LET r == generate_response(lang, key, oc)
         IN  IF Crisis[user_text]
             THEN [m EXCEPT !.ui.chat = "helpline", !.ui.calls = @ \o r.calls]
             ELSE [m EXCEPT !.ui.chat = "reply", !.ui.reply = r.reply,
                            !.ui.calls = @ \o r.calls]

\* lines 161-172
ChatSection(m, pressed, user_text, lang, key, oc) ==
    IF Crashed(m) \/ ~pressed THEN m
    ELSE IF Crisis[user_text]
    THEN [m EXCEPT !.ui.chat = "helpline"]
    ELSE LET r == generate_response(lang, key, oc)
         IN  [m EXCEPT !.ui.chat = "reply", !.ui.reply = r.reply,
                       !.ui.calls = @ \o r.calls]

\* lines 175-187
MoodSection(m, pressed, mood, note, anon_mode, d, t) ==
    IF Crashed(m) \/ ~pressed \/ anon_mode THEN m
    ELSE LET r == save_mood(m.file, mood, note, d, t)
         IN  IF r.exc # "" THEN Crash(m, "Mood Logger", r.exc)
             ELSE [m EXCEPT !.file = r.val,
                            !.logged = Append(@, <<mood, note>>),
                            !.ui.saved = TRUE]

\* the permutations of 1..n
Perms(n) == {p \in [1..n -> 1..n] : \A i, j \in 1..n : p[i] = p[j] => i = j}

\* hist has the rows of df in the order p
Reorder(df, p) ==
    DataFrame(df.columns, Seq1([i \in 1..Len(df.rows) |-> df.rows[p[i]]]))

\* every row's date_time is >= the next row's
SortedDescending(df) ==
    LET col == Column(df, "date_time")
    IN  \A i \in 1..(Len(col) - 1) : ~StrLess(col[i].s, col[i + 1].s)

\* a variant of line 216 that leaves the rows in any order
unsorted(df) == Perms(Len(df.rows))

\* line 216: df.sort_values("date_time", ascending=False).  The sort is not
\* stable, so any order that is descending may come out.
sort_values(df) == {p \in Perms(Len(df.rows)) : SortedDescending(Reorder(df, p))}

\* the orders the Mood History of file f may be shown in
SortOrders(f) ==
    LET r == load_moods(f)
    IN  IF r.exc = "" /\ ~IsEmpty(r.val) /\ HasColumn(r.val, "date_time")
        THEN sort_values(r.val)
        ELSE {<<>>}

\* lines 132-140: " ".join(notes) needs every note to be a str
plot_wordcloud(notes) ==
    IF notes = {} THEN Return("None")
    ELSE IF \E v \in notes : v.t # "str" THEN Raise("TypeError")
    ELSE Return("fig")

\* what the Insights tab computes from the file
NoView == [exc |-> "", total |-> -1, streak |-> -1, score |-> -1, export |-> NoFile]

ViewCrash(v, e) == [v EXCEPT !.exc = e]

\* lines 197-219, on the loaded frame df
History(v, df, p) ==
    IF IsEmpty(df) THEN v
    ELSE IF ~HasColumn(df, "date") \/ ~HasColumn(df, "mood") \/ ~HasColumn(df, "note")
    THEN ViewCrash(v, "KeyError")
    ELSE LET col   == Column(df, "note")
             notes == {col[r] : r \in {r \in 1..Len(col) : col[r].t # "nan"}}
         IN  IF plot_wordcloud(notes).exc # ""
             THEN ViewCrash(v, plot_wordcloud(notes).exc)
             ELSE IF ~HasColumn(df, "date_time")
             THEN ViewCrash(v, "KeyError")
             ELSE [v EXCEPT !.export = to_csv(Reorder(df, p))]

\* lines 192-219 on the file f: the metrics and the export shown, or the
\* exception that ends the run
Insights(f, d, p) ==
    LET r == load_moods(f)
        s == calculate_streak(f, d)
    IN  IF r.exc # "" THEN ViewCrash(NoView, r.exc)
        ELSE LET v1 == [NoView EXCEPT !.total = Len(r.val.rows)]
                 w  == wellness_score(r.val)
             IN  IF s.exc # "" THEN ViewCrash(v1, s.exc)
                 ELSE IF w.exc # ""
                 THEN ViewCrash([v1 EXCEPT !.streak = s.val], w.exc)
                 ELSE History([v1 EXCEPT !.streak = s.val, !.score = w.val], r.val, p)

\* lines 190-219, with v = Insights(m.file, d, p)
InsightsSection(m, v) ==
    IF Crashed(m) THEN m
    ELSE LET m1 == [m EXCEPT !.ui.total = v.total, !.ui.streak = v.streak,
                             !.ui.score = v.score, !.ui.export = v.export]
         IN  IF v.exc # "" THEN Crash(m1, "Insights", v.exc) ELSE m1

\* entry.strip() is not empty
strip(text) == \E i \in 1..Len(text) : text[i] # " "

\* lines 222-233: the call is made outside any try
JournalSection(m, pressed, entry, ok) ==
    IF Crashed(m) \/ ~pressed THEN m
    ELSE IF strip(entry)
    THEN LET m1 == [m EXCEPT !.ui.calls = Append(@, Call("generate_content", ok))]
         IN  IF ok THEN [m1 EXCEPT !.ui.journal = "response.text"]
             ELSE Crash(m1, "Journaling", "CollaboratorError")
    ELSE [m EXCEPT !.ui.journal = "Write something before analyzing."]

Has(ss, k) == k \in DOMAIN ss

Set(ss, k, v) == (k :> v) @@ ss

\* lines 246-256.  Reading a key st.session_state does not hold raises
\* KeyError; the condition of line 247 is evaluated outside the try.
AffirmationSection(m, d, ok, pick) ==
    IF Crashed(m) THEN m
    ELSE IF Has(m.session, "last_affirmation") /\ ~Has(m.session, "last_affirmation_date")
    THEN Crash(m, "Daily Affirmation", "KeyError")
    ELSE IF ~Has(m.session, "last_affirmation")
            \/ m.session["last_affirmation_date"] # isoformat(d)
    THEN LET ss == IF ok
                   THEN Set(Set(m.session, "last_affirmation", "response.text"),
                            "last_affirmation_date", isoformat(d))
                   ELSE Set(m.session, "last_affirmation", pick)
         IN  [m EXCEPT !.session = ss,
                       !.ui.calls = Append(@, Call("generate_content", ok)),
                       !.ui.affirmation = ss["last_affirmation"]]
    ELSE [m EXCEPT !.ui.affirmation = m.session["last_affirmation"]]

-----------------------------------------------------------------------------
(* The application: one browser session, one script run per interaction    *)

\* what the user may type or pick
JournalTexts == { <<>>, <<" ", " ">>, <<"s", "a", "d">> }

Notes == {"", "fine day", "007"}

\* the radio's value in the application model (the moods only feed the score)
MoodChoices == {MOODS[1]}

LanguageChoices == {"English", "Hindi"}

NoSession == [k \in {} |-> ""]

IdleProc == [pc |-> "idle", mood |-> "", note |-> "", df |-> DataFrame(<<>>, <<>>),
             saves |-> 0]

\* history of the concurrent saves: the writes completed, the last writer and
\* its frame, the calls an exception ended, and whether a session ever took
\* its snapshot of the file while the other was between snapshot and write
NoWrites == [count |-> 0, by |-> 0, frame |-> DataFrame(<<>>, <<>>), failed |-> 0,
             overlapped |-> FALSE]

\* the widgets of a section whose button is not pressed
NoChat == [user_text |-> <<>>, lang |-> "English", key |-> TRUE,
           oc |-> <<TRUE, TRUE, TRUE>>]

NoMood == [mood |-> MOODS[1], note |-> "", anon_mode |-> FALSE]

NoJournal == [entry |-> <<>>, ok |-> TRUE]

\* the chat inputs and collaborator outcomes of a Send; the outcome of a
\* call that is not made is not enumerated
ChatInputs ==
    {c \in [user_text : ChatTexts, lang : LanguageChoices, key : BOOLEAN,
            oc : [1..3 -> BOOLEAN]] :
        LET made == IF Crisis[c.user_text] THEN 0
                    ELSE Len(generate_response(c.lang, c.key, c.oc).calls)
        IN  \A k \in 1..3 : k > made => c.oc[k]}

\* random.choice(seq): any of its elements (here, of the first MaxChoice)
random_choice(seq) == {seq[i] : i \in 1..Min(MaxChoice, Len(seq))}

\* the outcomes of the Daily Affirmation's call when the section makes it
AffirmationOutcomes(m) ==
    IF ~Crashed(m)
       /\ ( ~Has(m.session, "last_affirmation")
            \/ ( Has(m.session, "last_affirmation_date")
                 /\ m.session["last_affirmation_date"] # isoformat(today) ) )
    THEN {[ok |-> TRUE, pick |-> ""]}
         \cup {[ok |-> FALSE, pick |-> a] : a \in random_choice(AFFIRMATIONS)}
    ELSE {[ok |-> TRUE, pick |-> ""]}

\* the run's record before its first section
Start(button, c) ==
    [file |-> file, session |-> session, logged |-> logged,
     ui |-> FreshUi(button, today, c.user_text)]

\* lines 150-259: the script, run once with `button` pressed and the
\* widgets' values c (chat), l (mood logger), j (journal).  The chat never
\* touches the file, so what the Insights tab computes is evaluated once,
\* on the file f the Mood Logger leaves, for all the chat inputs.
Run(button, ChatIn, l, j) ==
    \E f \in {MoodSection(Start(button, NoChat), button = "Log Mood",
                          l.mood, l.note, l.anon_mode, today, tick).file} :
    \E p \in SortOrders(f) :
    \E v \in {Insights(f, today, p)} :
    \E c \in ChatIn :
    \E m1 \in {ChatSection(Start(button, c), button = "Send",
                           c.user_text, c.lang, c.key, c.oc)} :
    \E m2 \in {MoodSection(m1, button = "Log Mood", l.mood, l.note, l.anon_mode,
                           today, tick)} :
    \E m3 \in {InsightsSection(m2, v)} :
    \E m4 \in {JournalSection(m3, button = "Analyze My Journal", j.entry, j.ok)} :
    \E a \in AffirmationOutcomes(m4) :
    \E m5 \in {AffirmationSection(m4, today, a.ok, a.pick)} :
        /\ m2.file = f
        /\ file' = m5.file
        /\ session' = m5.session
        /\ logged' = m5.logged
        /\ ui' = m5.ui
        /\ UNCHANGED <<today, tick, proc, writes>>

\* a widget other than a button changed, or the page was opened
Rerun == Run("rerun", {NoChat}, NoMood, NoJournal)

\* line 164
Send == Run("Send", ChatInputs, NoMood, NoJournal)

\* line 180
LogMood ==
    \E l \in [mood : MoodChoices, note : Notes, anon_mode : BOOLEAN] :
        /\ l.anon_mode \/ Len(file.rows) < MaxEntries
        /\ Run("Log Mood", {NoChat}, l, NoJournal)

\* line 225
AnalyzeJournal ==
    \E j \in [entry : JournalTexts, ok : BOOLEAN] :
        Run("Analyze My Journal", {NoChat}, NoMood, j)

\* line 238
StartBreathing == Run("Start 30-sec Breathing", {NoChat}, NoMood, NoJournal)

\* the clock: midnight passes.  Within a day the application model keeps
\* one second, so two moods logged the same day carry the same date_time.
AdvanceDay ==
    /\ today < MaxDay
    /\ today' = today + 1
    /\ UNCHANGED <<file, session, tick, logged, ui, proc, writes>>

Init ==
    /\ file = NoFile
    /\ session = NoSession
    /\ today = 1
    /\ tick = 1
    /\ logged = <<>>
    /\ ui = FreshUi("", 1, <<>>)
    /\ proc = <<IdleProc, IdleProc>>
    /\ writes = NoWrites

Next ==
    \/ Rerun
    \/ Send
    \/ LogMood
    \/ AnalyzeJournal
    \/ StartBreathing
    \/ AdvanceDay

Spec == Init /\ [][Next]_vars

-----------------------------------------------------------------------------
(* The store and its readers on their own: save_mood called by a single    *)
(* writer, and each reader applied to the file the saves have produced.    *)

\* save_mood(mood, note) at the current time; a save re-renders the page
SaveStep(mood, note) ==
    \E r \in {save_mood(file, mood, note, today, tick)} :
        /\ file' = IF r.exc = "" THEN r.val ELSE file
        /\ logged' = IF r.exc = "" THEN Append(logged, <<mood, note>>) ELSE logged
        /\ ui' = IF r.exc = "" THEN FreshUi("save_mood", today, <<>>)
                 ELSE Crash([ui |-> FreshUi("save_mood", today, <<>>)],
                            "Mood Logger", r.exc).ui
        /\ UNCHANGED <<session, today, tick, proc, writes>>

\* lines 106-120 applied to the file
ApplyStreak ==
    \E r \in {calculate_streak(file, today)} :
        /\ ui' = IF r.exc = ""
                 THEN [FreshUi("calculate_streak", today, <<>>) EXCEPT !.streak = r.val]
                 ELSE Crash([ui |-> FreshUi("calculate_streak", today, <<>>)],
                            "Insights", r.exc).ui
        /\ UNCHANGED <<file, session, today, tick, logged, proc, writes>>

\* lines 142-147 applied to the loaded file
ApplyScore ==
    \E r \in {load_moods(file)} :
    \E w \in {IF r.exc = "" THEN wellness_score(r.val) ELSE r} :
        /\ ui' = IF w.exc = ""
                 THEN [FreshUi("wellness_score", today, <<>>) EXCEPT !.score = w.val]
                 ELSE Crash([ui |-> FreshUi("wellness_score", today, <<>>)],
                            "Insights", w.exc).ui
        /\ UNCHANGED <<file, session, today, tick, logged, proc, writes>>

\* lines 190-219 applied to the file
ViewInsights ==
    \E p \in SortOrders(file) :
    \E v \in {Insights(file, today, p)} :
        /\ ui' = InsightsSection([ui |-> FreshUi("Insights", today, <<>>)], v).ui
        /\ UNCHANGED <<file, session, today, tick, logged, proc, writes>>

AdvanceSecond ==
    /\ tick < MaxTick
    /\ tick' = tick + 1
    /\ UNCHANGED <<file, session, today, logged, ui, proc, writes>>

Midnight(lastDay) ==
    /\ today < lastDay
    /\ today' = today + 1
    /\ tick' = 1
    /\ UNCHANGED <<file, session, logged, ui, proc, writes>>

\* streak inputs: one mood a save, on any of the days
StreakSave ==
    /\ Len(file.rows) < MaxStreakRows
    /\ SaveStep(MOODS[1], "fine day")

StreakMidnight == Midnight(MaxStreakDay)

SpecStreak == Init /\ [][StreakSave \/ StreakMidnight \/ ApplyStreak]_vars

\* score inputs: MaxPrefix rows of any moods, then a run of the last mood
ScoreSave ==
    \E mood \in Range(MOODS) :
        /\ Len(file.rows) < MaxPrefix + MaxRun
        /\ IF Len(file.rows) < MaxPrefix THEN TRUE
           ELSE mood = file.rows[Len(file.rows)][3]
        /\ SaveStep(mood, "fine day")

ScoreMidnight == Midnight(MaxDay)

SpecScore == Init /\ [][ScoreSave \/ ScoreMidnight \/ ApplyScore]_vars

\* export inputs: any notes, at any times
ExportSave ==
    \E note \in Notes :
        /\ Len(file.rows) < MaxEntries + 1
        /\ SaveStep(MOODS[1], note)

ExportMidnight == Midnight(MaxDay)

NextExport == ExportSave \/ AdvanceSecond \/ ExportMidnight \/ ViewInsights

SpecExport == Init /\ [][NextExport]_vars

\* the files the application may find on disk: none, an empty one, one
\* with another header, one written by save_mood
DiskFiles ==
    { NoFile,
      EmptyFile,
      [exists |-> TRUE, header |-> <<"foo">>, rows |-> <<>>],
      [exists |-> TRUE, header |-> <<"foo">>, rows |-> << <<"bar">> >>],
      [exists |-> TRUE, header |-> MOOD_COLUMNS, rows |-> <<>>],
      save_mood(NoFile, MOODS[2], "fine day", 1, 1).val }

InitDisk ==
    /\ file \in DiskFiles
    /\ session = NoSession
    /\ today = 1
    /\ tick = 1
    /\ logged = <<>>
    /\ ui = FreshUi("", 1, <<>>)
    /\ proc = <<IdleProc, IdleProc>>
    /\ writes = NoWrites

\* a save onto a file whose rows are mood rows
DiskSave ==
    \E note \in Notes :
        /\ Len(file.rows) < MaxEntries
        /\ file.header = MOOD_COLUMNS \/ file.rows = <<>>
        /\ SaveStep(MOODS[1], note)

NextDisk ==
    \/ DiskSave
    \/ ExportMidnight
    \/ ViewInsights
    \/ ApplyStreak
    \/ ApplyScore

SpecDisk == InitDisk /\ [][NextDisk]_vars

-----------------------------------------------------------------------------
(* Two sessions inside save_mood (src/app.py lines 87-99) at once.  The    *)
(* steps of one call: the entry is built, os.path.exists is asked, the     *)
(* file is read and the entry appended in memory, and to_csv opens the     *)
(* file for writing, which empties it, and then writes the whole frame.    *)

Sessions == {1, 2}

Other(s) == 3 - s

ConcMoods == {MOODS[1], MOODS[2]}

\* between taking its snapshot of the file and finishing its write
Writing(s) == proc[s].pc \in {"write", "flush"}

\* lines 88-93
Begin(s) ==
    \E mood \in ConcMoods :
        /\ proc[s].pc = "idle"
        /\ proc[s].saves < MaxSaves
        /\ proc' = [proc EXCEPT ![s].pc = "exists", ![s].mood = mood,
                                ![s].note = "fine day"]
        /\ UNCHANGED <<file, session, today, tick, logged, ui, writes>>

\* line 94, and line 98 when there is no file
Exists(s) ==
    /\ proc[s].pc = "exists"
    /\ IF file.exists
       THEN /\ proc' = [proc EXCEPT ![s].pc = "read"]
            /\ UNCHANGED writes
       ELSE /\ proc' = [proc EXCEPT
                           ![s].pc = "write",
                           ![s].df = Entry(proc[s].mood, proc[s].note, today, tick)]
            /\ writes' = [writes EXCEPT !.overlapped = @ \/ Writing(Other(s))]
    /\ UNCHANGED <<file, session, today, tick, logged, ui>>

\* lines 95-96; an exception ends the call
Read(s) ==
    /\ proc[s].pc = "read"
    /\ \E r \in {read_csv(file)} :
          IF r.exc # ""
          THEN /\ proc' = [proc EXCEPT ![s].pc = "idle", ![s].saves = @ + 1]
               /\ writes' = [writes EXCEPT !.failed = @ + 1]
          ELSE /\ proc' = [proc EXCEPT
                              ![s].pc = "write",
                              ![s].df = concat(r.val, Entry(proc[s].mood, proc[s].note,
                                                            today, tick))]
               /\ writes' = [writes EXCEPT !.overlapped = @ \/ Writing(Other(s))]
    /\ UNCHANGED <<file, session, today, tick, logged, ui>>

\* line 99: to_csv opens the file with mode "w"
Truncate(s) ==
    /\ proc[s].pc = "write"
    /\ file' = EmptyFile
    /\ proc' = [proc EXCEPT ![s].pc = "flush"]
    /\ UNCHANGED <<session, today, tick, logged, ui, writes>>

\* line 99: the frame is written and the file closed
Flush(s) ==
    /\ proc[s].pc = "flush"
    /\ file' = to_csv(proc[s].df)
    /\ proc' = [proc EXCEPT ![s].pc = "idle", ![s].saves = @ + 1]
    /\ logged' = Append(logged, <<proc[s].mood, proc[s].note>>)
    /\ writes' = [writes EXCEPT !.count = @ + 1, !.by = s, !.frame = proc[s].df]
    /\ UNCHANGED <<session, today, tick, ui>>

NextConc ==
    \E s \in Sessions :
        \/ Begin(s)
        \/ Exists(s)
        \/ Read(s)
        \/ Truncate(s)
        \/ Flush(s)

SpecConc == Init /\ [][NextConc]_vars


-----------------------------------------------------------------------------
(* Properties *)

\* C1: after N saves by a single writer starting from no file, load_moods
\* returns N entries in the order appended, the mood and note of the i-th
\* equal to the values passed to the i-th save_mood.
C1_RoundTrip ==
    LET r == load_moods(file)
    IN  /\ r.exc = ""
        /\ Len(r.val.rows) = Len(logged)
        /\ \A i \in 1..Len(logged) :
              /\ Column(r.val, "mood")[i] = Str(logged[i][1])
              /\ Column(r.val, "note")[i] = Str(logged[i][2])

\* C2: on a Send whose text is_crisis accepts, the helpline is shown, no
\* reply is produced and neither generate_response's model call nor
\* translate is made, whatever the key and the collaborator would do.
C2_CrisisGate ==
    (ui.button = "Send" /\ ui.crisis) =>
        /\ ui.chat = "helpline"
        /\ ui.reply = NoText
        /\ \A k \in 1..Len(ui.calls) : ui.calls[k].api \notin {"send_message", "translate"}

\* a Send with a crisis text was handled
C2_Witness ==
    /\ ui.button = "Send"
    /\ ui.crisis
    /\ ui.chat = "helpline"
    /\ ui.status = "ok"

\* C3: no script run ends with the collaborator's exception uncaught.
C3_FailureContained == ui.exc # "CollaboratorError"

\* C4: on a missing or malformed file load_moods returns the empty frame
\* with the four columns, and no run or reader applied to it ends in an
\* exception.
C4_MalformedIsEmpty ==
    (~file.exists \/ file.header # MOOD_COLUMNS) =>
        /\ load_moods(file) = Return(DataFrame(MOOD_COLUMNS, <<>>))
        /\ ui.status = "ok"

\* the days that have an entry in the file f
EntryDays(f) == {to_date(f.rows[i][2]) : i \in 1..Len(f.rows)}

\* the number of consecutive days now, now-1, ... that are all in D
ConsecutiveDays(D, now) ==
    CHOOSE k \in 0..now : (\A j \in 0..(k - 1) : now - j \in D) /\ (now - k) \notin D

\* C5: calculate_streak returns the number k of consecutive days today,
\* today-1, ..., today-(k-1) that each have an entry: 0 for an empty store
\* or when today has no entry, a day with several entries counted once.
C5_Streak ==
    ui.button = "calculate_streak" =>
        /\ ui.status = "ok"
        /\ ui.streak = ConsecutiveDays(EntryDays(file), ui.day)
        /\ file.rows = <<>> => ui.streak = 0
        /\ ui.day \notin EntryDays(file) => ui.streak = 0

\* today, yesterday and the day before have entries, one day has two
C5_Witness ==
    /\ ui.button = "calculate_streak"
    /\ ui.streak = 3
    /\ Len(file.rows) = 4
    /\ Cardinality(EntryDays(file)) = 3

\* the entries of the file with the mood m
MoodCount(m) == Cardinality({i \in 1..Len(file.rows) : file.rows[i][3] = m})

\* 50 plus the sum of the deltas of the stored moods
RawScore ==
    50 + 2 * MoodCount("Happy") - MoodCount("Sad") - MoodCount("Anxious")
       - 2 * MoodCount("Angry") - MoodCount("Stressed")

\* C6: wellness_score is 50 plus the sum of the moods' deltas clamped to
\* [0, 100], whatever the entries' dates; 50 for no entry.
C6_Score ==
    ui.button = "wellness_score" =>
        /\ ui.status = "ok"
        /\ ui.score = (IF RawScore < 0 THEN 0 ELSE IF RawScore > 100 THEN 100 ELSE RawScore)
        /\ ui.score >= 0 /\ ui.score <= 100
        /\ file.rows = <<>> => ui.score = 50

\* more Happy entries than the scale holds
C6_Witness ==
    /\ ui.button = "wellness_score"
    /\ RawScore > 100
    /\ ui.score = 100

\* C7: what has been written stays as written: the i-th row of the file
\* carries the mood and note of the i-th Log Mood that saved, and nothing
\* else adds or removes a row.
C7_AppendOnly ==
    /\ Len(file.rows) = Len(logged)
    /\ \A i \in 1..Len(file.rows) :
          /\ file.rows[i][3] = logged[i][1]
          /\ file.rows[i][4] = logged[i][2]

C9_SaveMood ==
    ((\A s \in Sessions : proc[s].pc # "flush") /\ writes.count > 0) =>
        /\ file = to_csv(writes.frame)
        /\ Len(file.rows) <= writes.count
        /\ ~writes.overlapped =>
              /\ Len(file.rows) = writes.count
              /\ \A i \in 1..Len(file.rows) : file.rows[i][3] = logged[i][1]

\* both sessions saved, no call failed, and the file holds one entry
C9_Witness ==
    /\ \A s \in Sessions : proc[s].pc = "idle" /\ proc[s].saves = 1
    /\ writes.count = 2
    /\ writes.failed = 0
    /\ Len(file.rows) = 1

\* C10: every run that reaches the Daily Affirmation section completes it
\* showing an affirmation, and leaves the session with last_affirmation and
\* last_affirmation_date, the latter the date of the run.
C10_Affirmation ==
    (ui.button # "" /\ (ui.status = "ok" \/ ui.section = "Daily Affirmation")) =>
        /\ ui.status = "ok"
        /\ ui.affirmation # ""
        /\ Has(session, "last_affirmation")
        /\ Has(session, "last_affirmation_date")
        /\ session["last_affirmation_date"] = isoformat(ui.day)

=============================================================================
